---- MODULE Spec2Model ----
(***************************************************************************)
(* Model of the migrator package (Migrator.Run with the advisory lock and  *)
(* the single transaction), together with the parts of database/sql and    *)
(* PostgreSQL that Run drives: the connection pool of a *sql.DB handle,    *)
(* session-level advisory locks, transactions, the ACCESS EXCLUSIVE table  *)
(* lock and the bookkeeping table with its primary key.                    *)
(***************************************************************************)
EXTENDS Naturals, Integers, Sequences, FiniteSets, TLC

(***************************************************************************)
(* Bounds of the model.                                                    *)
(***************************************************************************)
\* goroutines (or processes) that call Run
NumRuns == 2
\* Run invocations in one behaviour, all callers together
MaxCalls == 3
\* statement-level failures injected in one behaviour
MaxFaults == 1
\* entries of the migration source
MaxFiles == 2
\* statements other clients of the database run in one behaviour
MaxExternal == 1

Runs == 1..NumRuns
\* a *sql.DB handle is a process-local pool; two Runs share a pool or not
Handles == 1..2

(***************************************************************************)
(* Strings are sequences of characters; Go compares strings bytewise, so   *)
(* the characters carry their ASCII order: '-' < '.' < '/' < digits <      *)
(* letters.                                                                *)
(***************************************************************************)
Alphabet == <<"-", ".", "/", "1", "2", "l", "q", "s", "t">>

Rank(ch) == CHOOSE i \in 1..Len(Alphabet) : Alphabet[i] = ch

Min(a, b) == IF a <= b THEN a ELSE b

\* s < t as Go's string comparison (sort.Strings uses it)
StrLess(s, t) ==
    \/ \E i \in 1..Min(Len(s), Len(t)) :
          /\ \A j \in 1..(i - 1) : s[j] = t[j]
          /\ Rank(s[i]) < Rank(t[i])
    \/ /\ Len(s) < Len(t)
       /\ \A j \in 1..Len(s) : s[j] = t[j]

SqlSuffix == <<".", "s", "q", "l">>
TxtSuffix == <<".", "t">>

\* strings.HasSuffix
HasSuffix(s, suf) ==
    /\ Len(s) >= Len(suf)
    /\ SubSeq(s, Len(s) - Len(suf) + 1, Len(s)) = suf

\* strings.TrimSuffix
TrimSuffix(s, suf) ==
    IF HasSuffix(s, suf) THEN SubSeq(s, 1, Len(s) - Len(suf)) ELSE s

\* filepath.Base on a slash-separated, non-empty path without trailing slash
Base(p) ==
    LET slashes == {i \in 1..Len(p) : p[i] = "/"}
    IN  IF slashes = {} THEN p
        ELSE SubSeq(p, (CHOOSE i \in slashes : \A j \in slashes : j <= i) + 1, Len(p))

\* the version Run derives from a path of the source
VersionOf(p) == TrimSuffix(Base(p), SqlSuffix)

(***************************************************************************)
(* The migration source (fs.FS): a set of regular files, each in the root  *)
(* or in a subdirectory, with a name, an extension and a body that         *)
(* PostgreSQL accepts ("ok") or rejects ("bad").                           *)
(***************************************************************************)
DirNames == {<<>>, <<"2">>}
FileNames == {<<"1">>, <<"2">>, <<"1", "-", "2">>}
\* the names met inside the subdirectory
NestedNames == {<<"1">>}
Bodies == {"ok", "bad"}

PathOf(dir, name, suf) ==
    IF dir = <<>> THEN name \o suf ELSE dir \o <<"/">> \o name \o suf

\* the migration files, and a file that is none (its name lacks .sql)
SqlFiles ==
    {f \in {[path |-> PathOf(d, n, SqlSuffix), body |-> b] :
                d \in DirNames, n \in FileNames, b \in Bodies} :
        f.path = Base(f.path) \/ VersionOf(f.path) \in NestedNames}
OtherFiles == {[path |-> PathOf(<<>>, <<"1">>, TxtSuffix), body |-> "ok"]}
AllFiles == SqlFiles \cup OtherFiles

\* a file system holds one file per path; a directory "2" and a file "2"
\* cannot both exist, but "2" and "2.sql" can
IsSource(S) ==
    /\ S # {}
    /\ Cardinality(S) <= MaxFiles
    /\ \A f, g \in S : f.path = g.path => f = g

RECURSIVE FileSetsUpTo(_)
FileSetsUpTo(k) ==
    IF k = 0 THEN {{}}
    ELSE LET P == FileSetsUpTo(k - 1)
         IN  P \cup {S \cup {f} : S \in P, f \in AllFiles}

AllSources == {S \in FileSetsUpTo(MaxFiles) : IsSource(S)}

\* the flat sources of well-formed names: what the package's tests embed
FlatSources ==
    {S \in AllSources :
        /\ Cardinality(S) >= 2
        /\ \A f \in S : HasSuffix(f.path, SqlSuffix) /\ Len(f.path) = 1 + Len(SqlSuffix)}

\* the versions a bookkeeping row can carry
AllVersions == {VersionOf(f.path) : f \in SqlFiles}

(***************************************************************************)
(* fs.WalkDir visits the entries of a directory in lexical order of their  *)
(* names and descends into a directory when it meets it.                   *)
(***************************************************************************)
\* the first component of a path (a file name or a directory name)
Head1(p) ==
    LET slashes == {i \in 1..Len(p) : p[i] = "/"}
    IN  IF slashes = {} THEN p
        ELSE SubSeq(p, 1, (CHOOSE i \in slashes : \A j \in slashes : i <= j) - 1)

WalkBefore(p, q) ==
    \/ StrLess(Head1(p), Head1(q))
    \/ Head1(p) = Head1(q) /\ StrLess(Base(p), Base(q))

RECURSIVE WalkOrder(_)
\* the paths of P in the order the walk meets them
WalkOrder(P) ==
    IF P = {} THEN <<>>
    ELSE LET m == CHOOSE x \in P : \A y \in P \ {x} : WalkBefore(x, y)
         IN  <<m>> \o WalkOrder(P \ {m})

\* the paths the WalkDir callback appends to files, in walk order: regular
\* files whose name ends in .sql
WalkDir(src) ==
    WalkOrder({f.path : f \in {g \in src : HasSuffix(Base(g.path), SqlSuffix)}})

\* s without its i-th element
Remove(s, i) == SubSeq(s, 1, i - 1) \o SubSeq(s, i + 1, Len(s))

RECURSIVE SortStrings(_)
\* sort.Strings: the elements of s in ascending order
SortStrings(s) ==
    IF s = <<>> THEN <<>>
    ELSE LET i == CHOOSE k \in 1..Len(s) : \A j \in 1..Len(s) : ~StrLess(s[j], s[k])
         IN  <<s[i]>> \o SortStrings(Remove(s, i))

\* variant: the files returned in walk order, unsorted
getMigrationFilesUnsorted(src) == WalkDir(src)

\* Migrator.getMigrationFiles, on a walk that meets no error
getMigrationFiles(src) == SortStrings(WalkDir(src))

\* the listing of every source: an embedded fs.FS does not change, so the
\* walk and the sort return the same slice at every call
FilesOf == [S \in AllSources |-> getMigrationFiles(S)]

\* fs.ReadFile: the body of the file at a path of the source
ReadFile(src, p) == (CHOOSE f \in src : f.path = p).body

(***************************************************************************)
(* Construction: the configuration of options.go, and what a caller passes *)
(* to New and to Run.                                                      *)
(***************************************************************************)
defaultConfig == [tableName |-> "schema_migrations", lockID |-> "5764249691895432819"]

WithTableName(c, name) == [c EXCEPT !.tableName = name]

WithLockID(c, id) == [c EXCEPT !.lockID = id]

\* what a caller passes: its database handle and migration source (absent or
\* present), its configuration, and the context it calls Run with
ValidArgs == [db |-> "db", migrations |-> "fs", cfg |-> defaultConfig, ctx |-> "live"]

\* the calls of the package's tests: the plain one, a nil handle, a nil
\* source, a custom table name, a custom lock id, a cancelled context
AllArgs ==
    {ValidArgs,
     [ValidArgs EXCEPT !.db = "nil"],
     [ValidArgs EXCEPT !.migrations = "nil"],
     [ValidArgs EXCEPT !.cfg = WithTableName(defaultConfig, "custom_migrations")],
     [ValidArgs EXCEPT !.cfg = WithLockID(defaultConfig, "99999")],
     [ValidArgs EXCEPT !.ctx = "cancelled"]}

\* New(db, migrations): does construction fail. It stores both arguments
\* unchecked.
NewFails(db, migrations) == FALSE

\* the advisory lock key of the statements tryLock and unlock send
LockKey(cfg) == "1"

\* the table named in the statements of Run
TableName(cfg) == "schema_migrations"

(***************************************************************************)
(* State.                                                                  *)
(***************************************************************************)
VARIABLES
    source,       \* Migrator.migrations: the files of the fs.FS
    args,         \* args[r]: what caller r passes to New and to Run
    extLeft,      \* statements other clients of the database may still run
    extRead,      \* the versions another client's SELECT returned, "none" before
    handle,       \* handle[r]: the *sql.DB (Migrator.db) of run r, 0 before New
    pc,           \* pc[r]: where run r is in Run
    txConn,       \* txConn[r]: the connection m.db.Begin bound the *sql.Tx to
    applied,      \* applied[r]: the map getAppliedMigrations returned
    files,        \* files[r]: the slice getMigrationFiles returned
    idx,          \* idx[r]: position of the range loop over files
    err,          \* err[r]: the error Run is returning while it unwinds
    log,          \* log[r]: the statements of the run's transaction that took effect
    result,       \* result[r]: what the last Run of r returned
    unlockErr,    \* unlockErr[r]: what m.unlock() returned to the deferred function
    errVersion,   \* errVersion[r]: the version named in the error Run is returning
    poolSize,     \* poolSize[h]: connections handle h has opened
    busy,         \* connections checked out of their pool
    lockHolder,   \* session holding advisory lock 1, or NoConn
    lockCount,    \* how many times that session holds it (requests stack)
    tableExists,  \* committed: schema_migrations exists
    rows,         \* committed: rows[v] rows of schema_migrations carry version v
    effects,      \* committed: effects[v] executions of the body of version v
    created,      \* sessions whose open transaction created the table
    tableLock,    \* session holding ACCESS EXCLUSIVE on the table, or NoConn
    callsLeft,    \* Run invocations still allowed
    faults,       \* statement failures injected so far
    overlap,      \* some Run started while another was in progress
    unlockSeen,   \* some Run has executed its deferred unlock
    lateTry,      \* some tryLock ran after some unlock
    unlockFaulted, \* some pg_advisory_unlock call failed
    txEnd,        \* txEnd[r]: how the transaction of r's current Run stands
    durable       \* durable[r]: versions whose committed state r's current Run changed

envVars == <<source, args>>
extVars == <<extLeft, extRead>>
runVars == <<pc, txConn, applied, files, idx, err, log, result, unlockErr, errVersion>>
poolVars == <<poolSize, busy>>
dbVars == <<lockHolder, lockCount, tableExists, rows, effects, created, tableLock>>
histVars == <<callsLeft, faults, overlap, unlockSeen, lateTry, unlockFaulted>>
ghostVars == <<txEnd, durable>>
vars == <<envVars, extVars, handle, runVars, poolVars, dbVars, histVars, ghostVars>>

\* a connection is a PostgreSQL session: the k-th one handle h opened
Conns == Handles \X (1..NumRuns)
NoConn == <<0, 0>>

NoRows == [v \in AllVersions |-> 0]

\* the version of an error that names none
NoVersion == <<>>

InitRun ==
    /\ pc = [r \in Runs |-> "idle"]
    /\ txConn = [r \in Runs |-> NoConn]
    /\ applied = [r \in Runs |-> {}]
    /\ files = [r \in Runs |-> <<>>]
    /\ idx = [r \in Runs |-> 0]
    /\ err = [r \in Runs |-> "none"]
    /\ log = [r \in Runs |-> <<>>]
    /\ result = [r \in Runs |-> "none"]
    /\ unlockErr = [r \in Runs |-> "none"]
    /\ errVersion = [r \in Runs |-> NoVersion]
    /\ txEnd = [r \in Runs |-> "none"]
    /\ durable = [r \in Runs |-> {}]

\* a fresh schema (openDB creates an empty one) and fresh pools
InitDb ==
    /\ poolSize = [h \in Handles |-> 0]
    /\ busy = {}
    /\ lockHolder = NoConn
    /\ lockCount = 0
    /\ tableExists = FALSE
    /\ rows = NoRows
    /\ effects = NoRows
    /\ created = {}
    /\ tableLock = NoConn

InitHist ==
    /\ faults = 0
    /\ overlap = FALSE
    /\ unlockSeen = FALSE
    /\ lateTry = FALSE
    /\ unlockFaulted = FALSE

\* no Migrator is constructed yet
Init ==
    /\ source \in FlatSources
    /\ args = [r \in Runs |-> ValidArgs]
    /\ extLeft = 0
    /\ extRead = "none"
    /\ handle = [r \in Runs |-> 0]
    /\ callsLeft = MaxCalls
    /\ InitRun /\ InitDb /\ InitHist

\* the same engine over every source, with two Run calls
InitSrc ==
    /\ source \in AllSources
    /\ args = [r \in Runs |-> ValidArgs]
    /\ extLeft = 0
    /\ extRead = "none"
    /\ handle = [r \in Runs |-> 0]
    /\ callsLeft = 2
    /\ InitRun /\ InitDb /\ InitHist

\* callers with any arguments, over flat sources of valid bodies, with two
\* Run calls
InitNew ==
    /\ source \in {S \in FlatSources : \A f \in S : f.body = "ok"}
    /\ args \in [Runs -> AllArgs]
    /\ extLeft = 0
    /\ extRead = "none"
    /\ handle = [r \in Runs |-> 0]
    /\ callsLeft = 2
    /\ InitRun /\ InitDb /\ InitHist

\* the engine next to another client of the database, with two Run calls; the
\* schema is fresh, or holds the empty table that a Run over a source without
\* migrations leaves
InitExt ==
    /\ source \in FlatSources
    /\ args = [r \in Runs |-> ValidArgs]
    /\ extLeft = MaxExternal
    /\ extRead = "none"
    /\ handle = [r \in Runs |-> 0]
    /\ callsLeft = 2
    /\ poolSize = [h \in Handles |-> 0]
    /\ busy = {}
    /\ lockHolder = NoConn
    /\ lockCount = 0
    /\ tableExists \in BOOLEAN
    /\ rows = NoRows
    /\ effects = NoRows
    /\ created = {}
    /\ tableLock = NoConn
    /\ InitRun /\ InitHist

\* the engine alone, with two Run calls, on a fresh schema or on one that
\* holds the empty table
InitLive ==
    /\ source \in FlatSources
    /\ args = [r \in Runs |-> ValidArgs]
    /\ extLeft = 0
    /\ extRead = "none"
    /\ handle = [r \in Runs |-> 0]
    /\ callsLeft = 2
    /\ poolSize = [h \in Handles |-> 0]
    /\ busy = {}
    /\ lockHolder = NoConn
    /\ lockCount = 0
    /\ tableExists \in BOOLEAN
    /\ rows = NoRows
    /\ effects = NoRows
    /\ created = {}
    /\ tableLock = NoConn
    /\ InitRun /\ InitHist

(***************************************************************************)
(* database/sql: a statement run on the *sql.DB takes any idle connection  *)
(* of the pool, or opens one when none is idle, and gives it back when the *)
(* statement is done (QueryRow(...).Scan). Which idle connection is taken  *)
(* is the pool's choice.                                                   *)
(***************************************************************************)
FreeConns(h) == {c \in Conns : c[1] = h /\ c[2] <= poolSize[h] /\ c \notin busy}

PoolPick(h) ==
    IF FreeConns(h) # {} THEN FreeConns(h)
    ELSE {c \in Conns : c[1] = h /\ c[2] = poolSize[h] + 1}

Opened(c) ==
    IF c[2] > poolSize[c[1]] THEN [poolSize EXCEPT ![c[1]] = c[2]] ELSE poolSize

CanFault == faults < MaxFaults

Count(l, op, v) == Cardinality({i \in 1..Len(l) : l[i].op = op /\ l[i].version = v})

Others(r) == Runs \ {r}

(***************************************************************************)
(* PostgreSQL.                                                             *)
(***************************************************************************)
\* pg_try_advisory_lock(1) on session c: granted when no other session
\* holds the lock; a session that holds it is granted it again
PgTryAdvisoryLock(c) == lockHolder \in {NoConn, c}

\* pg_advisory_unlock(1) on session c releases one hold of c, and reports
\* false when c holds none
PgAdvisoryUnlock(c) == lockHolder = c /\ lockCount > 0

\* the session of a client that is no Migrator
ExtConn == <<0, 1>>

\* variant: a lock mode that conflicts with no statement
BlockedNever(c) == FALSE

\* ACCESS EXCLUSIVE conflicts with every lock mode: a statement of session c
\* on the table waits while another session holds the lock
Blocked(c) == tableLock \notin {NoConn, c}

\* the versions of the committed rows of the table
TableVersions == {v \in AllVersions : rows[v] > 0}

\* the rows with version v a statement of run r's transaction sees
Visible(r, v) == rows[v] + Count(log[r], "row", v)

(***************************************************************************)
(* Migrator.Run                                                            *)
(***************************************************************************)
\* run q has invoked Run before
Started(q) == pc[q] # "idle" \/ result[q] # "none"

\* New(db, migrations) by a caller: the handles are numbered in the order of
\* their first use; a caller shares the handle of an earlier one (a goroutine
\* of the same process) or has its own
NewHandles == {h \in Handles : h = 1 \/ \E q \in Runs : handle[q] = h - 1}

\* variant: the context is not consulted
ConnIgnoresContext(ctx) == FALSE

\* obtaining the Run's connection fails at once on a cancelled context
ConnFails(ctx) == ctx = "cancelled"

\* a caller invokes Run, on the Migrator it constructed before its first
\* call; the callers are numbered in the order of their first invocation
Call(r) ==
    /\ pc[r] = "idle"
    /\ callsLeft > 0
    /\ \A q \in Runs : q < r => Started(q)
    /\ ~NewFails(args[r].db, args[r].migrations)
    /\ IF handle[r] = 0 /\ args[r].db = "db"
       THEN \E h \in NewHandles : handle' = [handle EXCEPT ![r] = h]
       ELSE handle' = handle
    /\ callsLeft' = callsLeft - 1
    /\ IF ConnFails(args[r].ctx)
       THEN /\ pc' = pc
            /\ result' = [result EXCEPT ![r] = "cancelled"]
       ELSE /\ pc' = [pc EXCEPT ![r] = "tryLock"]
            /\ result' = [result EXCEPT ![r] = "none"]
    /\ unlockErr' = [unlockErr EXCEPT ![r] = "none"]
    /\ errVersion' = [errVersion EXCEPT ![r] = NoVersion]
    /\ err' = [err EXCEPT ![r] = "none"]
    /\ log' = [log EXCEPT ![r] = <<>>]
    /\ applied' = [applied EXCEPT ![r] = {}]
    /\ files' = [files EXCEPT ![r] = <<>>]
    /\ idx' = [idx EXCEPT ![r] = 0]
    /\ overlap' = (overlap \/ \E q \in Others(r) : pc[q] # "idle")
    /\ txEnd' = [txEnd EXCEPT ![r] = "none"]
    /\ durable' = [durable EXCEPT ![r] = {}]
    /\ UNCHANGED <<envVars, extVars, txConn, poolVars, dbVars, faults, unlockSeen,
                   lateTry, unlockFaulted>>

\* variant: a refused Run asks for the lock again until it is granted
AfterTryLockWait(locked) == IF locked THEN "begin" ELSE "tryLock"

\* variant: the deferred unlock registered before the locked check
AfterTryLockDeferred(locked) == IF locked THEN "begin" ELSE "unlock"

\* where Run goes after tryLock reported locked: on, or out before the
\* deferred unlock is registered
AfterTryLock(locked) == IF locked THEN "begin" ELSE "idle"

\* m.tryLock() and the two checks after it. On a Migrator whose db is nil,
\* QueryRow dereferences the nil handle and Run panics, before the deferred
\* unlock is registered.
TryLock(r) ==
    /\ pc[r] = "tryLock"
    /\ IF args[r].db = "nil"
       THEN /\ pc' = [pc EXCEPT ![r] = "idle"]
            /\ result' = [result EXCEPT ![r] = "panic"]
            /\ UNCHANGED <<poolSize, faults, lockHolder, lockCount>>
       ELSE \E c \in PoolPick(handle[r]), ok \in BOOLEAN :
          /\ ok \/ CanFault
          /\ poolSize' = Opened(c)
          /\ IF ~ok
             THEN /\ faults' = faults + 1
                  /\ pc' = [pc EXCEPT ![r] = "idle"]
                  /\ result' = [result EXCEPT ![r] = "lock"]
                  /\ UNCHANGED <<lockHolder, lockCount>>
             ELSE /\ faults' = faults
                  /\ pc' = [pc EXCEPT ![r] = AfterTryLock(PgTryAdvisoryLock(c))]
                  /\ IF PgTryAdvisoryLock(c)
                     THEN /\ lockHolder' = c
                          /\ lockCount' = lockCount + 1
                          /\ result' = result
                     ELSE /\ UNCHANGED <<lockHolder, lockCount>>
                          /\ result' = [result EXCEPT ![r] = "contention"]
    /\ lateTry' = (lateTry \/ unlockSeen)
    /\ UNCHANGED ghostVars
    /\ UNCHANGED <<envVars, extVars, handle, txConn, applied, files, idx, err, log, busy,
                   tableExists, rows, effects, created, tableLock, callsLeft,
                   overlap, unlockSeen, unlockFaulted, unlockErr, errVersion>>

\* m.db.Begin() in Migrator.tx
Begin(r) ==
    /\ pc[r] = "begin"
    /\ \E c \in PoolPick(handle[r]), ok \in BOOLEAN :
          /\ ok \/ CanFault
          /\ poolSize' = Opened(c)
          /\ IF ok
             THEN /\ busy' = busy \cup {c}
                  /\ txConn' = [txConn EXCEPT ![r] = c]
                  /\ pc' = [pc EXCEPT ![r] = "create"]
                  /\ txEnd' = [txEnd EXCEPT ![r] = "open"]
                  /\ UNCHANGED <<err, faults>>
             ELSE /\ faults' = faults + 1
                  /\ err' = [err EXCEPT ![r] = "begin"]
                  /\ pc' = [pc EXCEPT ![r] = "unlock"]
                  /\ UNCHANGED <<busy, txConn, txEnd>>
    /\ durable' = durable
    /\ UNCHANGED <<envVars, extVars, handle, applied, files, idx, log, result, unlockErr, errVersion, dbVars,
                   callsLeft, overlap, unlockSeen, lateTry, unlockFaulted>>

\* variant: the error of fun returned without tx.Rollback()
FailWithoutRollback(r, kind) ==
    /\ err' = [err EXCEPT ![r] = kind]
    /\ pc' = [pc EXCEPT ![r] = "unlock"]

\* a statement of the transaction failed: fun returns the wrapped error
Fail(r, kind) ==
    /\ err' = [err EXCEPT ![r] = kind]
    /\ pc' = [pc EXCEPT ![r] = "rollback"]

\* m.createMigrationsTable(tx): CREATE TABLE IF NOT EXISTS. While another
\* open transaction has created the table, the statement waits for it.
CreateTable(r) ==
    /\ pc[r] = "create"
    /\ \E ok \in BOOLEAN :
          /\ ok \/ CanFault
          /\ IF ~ok
             THEN /\ faults' = faults + 1
                  /\ Fail(r, "create")
                  /\ created' = created
             ELSE /\ faults' = faults
                  /\ err' = err
                  /\ IF tableExists
                     THEN /\ pc' = [pc EXCEPT ![r] = "lockTable"]
                          /\ created' = created
                     ELSE IF created # {}
                     THEN /\ pc' = [pc EXCEPT ![r] = "createWait"]
                          /\ created' = created
                     ELSE /\ pc' = [pc EXCEPT ![r] = "lockTable"]
                          /\ created' = created \cup {txConn[r]}
    /\ UNCHANGED ghostVars
    /\ UNCHANGED <<envVars, extVars, handle, txConn, applied, files, idx, log, result, unlockErr, errVersion,
                   poolVars, lockHolder, lockCount, tableExists, rows, effects,
                   tableLock, callsLeft, overlap, unlockSeen, lateTry, unlockFaulted>>

\* the waiting CREATE TABLE goes on when the creating transaction ended: it
\* fails on the catalog's unique index when that one committed, and creates
\* the table when it rolled back
CreateResume(r) ==
    /\ pc[r] = "createWait"
    /\ created = {}
    /\ IF tableExists
       THEN /\ Fail(r, "create")
            /\ created' = created
       ELSE /\ pc' = [pc EXCEPT ![r] = "lockTable"]
            /\ created' = created \cup {txConn[r]}
            /\ err' = err
    /\ UNCHANGED ghostVars
    /\ UNCHANGED <<envVars, extVars, handle, txConn, applied, files, idx, log, result, unlockErr, errVersion,
                   poolVars, lockHolder, lockCount, tableExists, rows, effects,
                   tableLock, histVars>>

\* LOCK TABLE schema_migrations IN ACCESS EXCLUSIVE MODE: waits while
\* another session holds the lock
LockTable(r) ==
    /\ pc[r] = "lockTable"
    /\ ~Blocked(txConn[r])
    /\ \E ok \in BOOLEAN :
          /\ ok \/ CanFault
          /\ IF ok
             THEN /\ tableLock' = txConn[r]
                  /\ pc' = [pc EXCEPT ![r] = "read"]
                  /\ UNCHANGED <<err, faults>>
             ELSE /\ faults' = faults + 1
                  /\ Fail(r, "lockTable")
                  /\ tableLock' = tableLock
    /\ UNCHANGED ghostVars
    /\ UNCHANGED <<envVars, extVars, handle, txConn, applied, files, idx, log, result, unlockErr, errVersion,
                   poolVars, lockHolder, lockCount, tableExists, rows, effects,
                   created, callsLeft, overlap, unlockSeen, lateTry, unlockFaulted>>

\* variant: the rows of the result are never scanned into the map
AppliedVersionsNone(r) == {}

\* the map getAppliedMigrations builds: the version of every row the
\* transaction sees
AppliedVersions(r) == {v \in AllVersions : Visible(r, v) > 0}

\* m.getAppliedMigrations(tx): the versions of the rows the transaction sees
GetApplied(r) ==
    /\ pc[r] = "read"
    /\ \E ok \in BOOLEAN :
          /\ ok \/ CanFault
          /\ IF ok
             THEN /\ applied' = [applied EXCEPT ![r] = AppliedVersions(r)]
                  /\ pc' = [pc EXCEPT ![r] = "files"]
                  /\ UNCHANGED <<err, faults>>
             ELSE /\ faults' = faults + 1
                  /\ Fail(r, "read")
                  /\ applied' = applied
    /\ UNCHANGED ghostVars
    /\ UNCHANGED <<envVars, extVars, handle, txConn, files, idx, log, result, unlockErr, errVersion, poolVars,
                   dbVars, callsLeft, overlap, unlockSeen, lateTry, unlockFaulted>>

\* m.getMigrationFiles(): the walk fails, or the sorted paths are returned.
\* On a Migrator whose migrations is nil, fs.WalkDir calls Open on the nil
\* fs.FS and Run panics: the deferred unlock runs while the panic unwinds, and
\* the transaction is neither committed nor rolled back.
GetFiles(r) ==
    /\ pc[r] = "files"
    /\ IF args[r].migrations = "nil"
       THEN /\ err' = [err EXCEPT ![r] = "panic"]
            /\ pc' = [pc EXCEPT ![r] = "unlock"]
            /\ UNCHANGED <<files, idx, faults>>
       ELSE \E ok \in BOOLEAN :
          /\ ok \/ CanFault
          /\ IF ok
             THEN /\ files' = [files EXCEPT ![r] = FilesOf[source]]
                  /\ idx' = [idx EXCEPT ![r] = 1]
                  /\ pc' = [pc EXCEPT ![r] = "loop"]
                  /\ UNCHANGED <<err, faults>>
             ELSE /\ faults' = faults + 1
                  /\ Fail(r, "files")
                  /\ UNCHANGED <<files, idx>>
    /\ UNCHANGED ghostVars
    /\ UNCHANGED <<envVars, extVars, handle, txConn, applied, log, result, unlockErr, errVersion, poolVars,
                   dbVars, callsLeft, overlap, unlockSeen, lateTry, unlockFaulted>>

\* the statements of applyMigration that took effect when it stops at
\* stage stop ("none": it returned nil)
Applied(version, file, stop) ==
    IF stop \in {"read", "exec"} THEN <<>>
    ELSE IF stop = "insert" THEN <<[op |-> "body", version |-> version, path |-> file]>>
    ELSE <<[op |-> "body", version |-> version, path |-> file],
           [op |-> "row", version |-> version, path |-> file]>>

\* variant: a table created without the primary key
PrimaryKeyAbsent(r, version) == TRUE

\* the INSERT violates the primary key when a row with the version is there
PrimaryKeyFree(r, version) == Visible(r, version) = 0

\* m.applyMigration(tx, version, file): the stage at which it fails when
\* fault f is injected, "none" when it succeeds
StopStage(r, version, file, f) ==
    IF f = "read" THEN "read"
    ELSE IF ReadFile(source, file) = "bad" \/ f = "exec" THEN "exec"
    ELSE IF ~PrimaryKeyFree(r, version) \/ f = "insert" THEN "insert"
    ELSE "none"

\* variant: the loop applies every file, applied or not
IsPendingAlways(r, file) == TRUE

\* the test of the range loop: is the file's version to be applied
IsPending(r, file) == VersionOf(file) \notin applied[r]

\* variant: the error of applyMigration is passed over and the loop goes on
AfterApplyContinue(stop) == "loop"

\* where Run goes when applyMigration stopped at stage stop: on to the next
\* file, or out of fun with the error
AfterApply(stop) == IF stop = "none" THEN "loop" ELSE "rollback"

\* variant: the error of applyMigration returned as it is
ApplyErrorBare(version) == NoVersion

\* the version in the error Run makes of a failed applyMigration
\* ("failed to apply migration %s: %w")
ApplyError(version) == version

\* one iteration of the range loop over files
Apply(r) ==
    /\ pc[r] = "loop"
    /\ idx[r] <= Len(files[r])
    /\ LET file == files[r][idx[r]]
           version == VersionOf(file)
       IN  IF ~IsPending(r, file)
           THEN /\ idx' = [idx EXCEPT ![r] = idx[r] + 1]
                /\ UNCHANGED <<pc, err, log, faults, errVersion>>
           ELSE \E f \in {"none", "read", "exec", "insert"} :
                  LET stop == StopStage(r, version, file, f)
                  IN  /\ f # "none" => CanFault /\ stop = f
                      /\ f = "exec" => ReadFile(source, file) = "ok"
                      /\ f = "insert" => PrimaryKeyFree(r, version)
                      /\ faults' = IF f = "none" THEN faults ELSE faults + 1
                      /\ log' = [log EXCEPT ![r] = log[r] \o Applied(version, file, stop)]
                      /\ err' = IF stop = "none" THEN err ELSE [err EXCEPT ![r] = "apply"]
                      /\ errVersion' = IF stop = "none" THEN errVersion
                                       ELSE [errVersion EXCEPT ![r] = ApplyError(version)]
                      /\ pc' = [pc EXCEPT ![r] = AfterApply(stop)]
                      /\ idx' = IF AfterApply(stop) = "loop"
                                THEN [idx EXCEPT ![r] = idx[r] + 1]
                                ELSE idx
    /\ UNCHANGED ghostVars
    /\ UNCHANGED <<envVars, extVars, handle, txConn, applied, files, result, unlockErr, poolVars,
                   dbVars, callsLeft, overlap, unlockSeen, lateTry, unlockFaulted>>

\* the transaction of run r ends: its connection goes back to the pool and
\* its locks on the table go
EndTx(r, how) ==
    /\ txEnd' = [txEnd EXCEPT ![r] = how]
    /\ durable' = [durable EXCEPT ![r] =
                      {v \in AllVersions : rows'[v] # rows[v] \/ effects'[v] # effects[v]}]
    /\ busy' = busy \ {txConn[r]}
    /\ created' = created \ {txConn[r]}
    /\ tableLock' = IF tableLock = txConn[r] THEN NoConn ELSE tableLock
    /\ txConn' = [txConn EXCEPT ![r] = NoConn]

\* the committed rows and body effects once the transaction of r commits
CommitRows(r) == [v \in AllVersions |-> rows[v] + Count(log[r], "row", v)]
CommitEffects(r) == [v \in AllVersions |-> effects[v] + Count(log[r], "body", v)]

\* variants: the error path ends the transaction without undoing it
RollbackRowsKept(r) == CommitRows(r)
RollbackEffectsKept(r) == CommitEffects(r)

\* variant: the error path empties the table
RollbackRowsLost(r) == NoRows

\* the committed rows and body effects once the transaction of r is rolled back
RollbackRows(r) == rows
RollbackEffects(r) == effects

\* variant: the error of tx.Commit() dropped
TxResultDropped(commitErr) == "none"

\* what Migrator.tx returns when tx.Commit() returned commitErr
TxResult(commitErr) == IF commitErr THEN "commit" ELSE "none"

\* fun returned nil: tx.Commit()
Commit(r) ==
    /\ pc[r] = "loop"
    /\ idx[r] > Len(files[r])
    /\ \E ok \in BOOLEAN :
          /\ ok \/ CanFault
          /\ faults' = IF ok THEN faults ELSE faults + 1
          /\ err' = [err EXCEPT ![r] = TxResult(~ok)]
          /\ IF ok
             THEN /\ rows' = CommitRows(r)
                  /\ effects' = CommitEffects(r)
                  /\ tableExists' = (tableExists \/ txConn[r] \in created)
             ELSE /\ rows' = RollbackRows(r)
                  /\ effects' = RollbackEffects(r)
                  /\ tableExists' = tableExists
          /\ EndTx(r, IF ok THEN "commit" ELSE "abort")
    /\ pc' = [pc EXCEPT ![r] = "unlock"]
    /\ UNCHANGED <<envVars, extVars, handle, applied, files, idx, log, result, unlockErr, errVersion, poolSize,
                   lockHolder, lockCount, callsLeft, overlap, unlockSeen,
                   lateTry, unlockFaulted>>

\* fun returned an error: tx.Rollback()
Rollback(r) ==
    /\ pc[r] = "rollback"
    /\ rows' = RollbackRows(r)
    /\ effects' = RollbackEffects(r)
    /\ EndTx(r, "abort")
    /\ pc' = [pc EXCEPT ![r] = "unlock"]
    /\ UNCHANGED <<envVars, extVars, handle, applied, files, idx, err, log, result, unlockErr, errVersion,
                   poolSize, lockHolder, lockCount, tableExists, histVars>>

\* the text Run puts before the driver's message in the error it returns, and
\* the version it names; the errors of Begin and Commit are returned as the
\* driver made them
ErrorText(kind, version) ==
    IF kind = "contention" THEN <<"another migration is in progress", NoVersion>>
    ELSE IF kind = "lock" THEN <<"failed to acquire advisory lock", NoVersion>>
    ELSE IF kind = "create" THEN <<"failed to create migrations table", NoVersion>>
    ELSE IF kind = "lockTable" THEN <<"failed to lock schema_migrations", NoVersion>>
    ELSE IF kind = "read" THEN <<"failed to get applied migrations", NoVersion>>
    ELSE IF kind = "files" THEN <<"failed to get migration files", NoVersion>>
    ELSE IF kind = "apply" THEN <<"failed to apply migration", version>>
    ELSE <<"", NoVersion>>

\* variant: the deferred function hands the error of m.unlock() to the caller
RunResultWithRelease(r, uerr) ==
    IF uerr THEN "unlock" ELSE IF err[r] = "none" THEN "ok" ELSE err[r]

\* what Run returns: the error of m.tx, whatever m.unlock() returned
RunResult(r, uerr) == IF err[r] = "none" THEN "ok" ELSE err[r]

\* what m.unlock() returns: an error when the call failed; the flag the
\* database returned is scanned and not looked at
UnlockReturns(transportOk, released) == IF transportOk THEN "nil" ELSE "error"

\* the deferred function: m.unlock() on a connection of the pool, its
\* result only printed; then Run returns
Unlock(r) ==
    /\ pc[r] = "unlock"
    /\ \E c \in PoolPick(handle[r]), ok \in BOOLEAN :
          /\ ok \/ CanFault
          /\ poolSize' = Opened(c)
          /\ faults' = IF ok THEN faults ELSE faults + 1
          /\ unlockFaulted' = (unlockFaulted \/ ~ok)
          /\ IF ok /\ PgAdvisoryUnlock(c)
             THEN /\ lockCount' = lockCount - 1
                  /\ lockHolder' = IF lockCount = 1 THEN NoConn ELSE lockHolder
             ELSE UNCHANGED <<lockHolder, lockCount>>
          /\ unlockErr' = [unlockErr EXCEPT ![r] = UnlockReturns(ok, PgAdvisoryUnlock(c))]
          /\ result' = [result EXCEPT ![r] = RunResult(r, ~ok)]
    /\ pc' = [pc EXCEPT ![r] = "idle"]
    /\ unlockSeen' = TRUE
    /\ UNCHANGED ghostVars
    /\ UNCHANGED <<envVars, extVars, handle, txConn, applied, files, idx, err, log, busy,
                   tableExists, rows, effects, created, tableLock, callsLeft,
                   overlap, lateTry, errVersion>>

Next ==
    \E r \in Runs :
        \/ Call(r)
        \/ TryLock(r)
        \/ Begin(r)
        \/ CreateTable(r)
        \/ CreateResume(r)
        \/ LockTable(r)
        \/ GetApplied(r)
        \/ GetFiles(r)
        \/ Apply(r)
        \/ Commit(r)
        \/ Rollback(r)
        \/ Unlock(r)

\* a statement or step of a Run that is in progress
RunStep(r) ==
    \/ TryLock(r)
    \/ Begin(r)
    \/ CreateTable(r)
    \/ CreateResume(r)
    \/ LockTable(r)
    \/ GetApplied(r)
    \/ GetFiles(r)
    \/ Apply(r)
    \/ Commit(r)
    \/ Rollback(r)
    \/ Unlock(r)

\* another client inserts a row into the table, in a transaction of its own:
\* the table must exist, the statement waits for the table lock, and the
\* primary key rejects a version that is there
ExternalInsert(v) ==
    /\ extLeft > 0
    /\ tableExists
    /\ ~Blocked(ExtConn)
    /\ rows[v] = 0
    /\ rows' = [rows EXCEPT ![v] = 1]
    /\ extLeft' = extLeft - 1
    /\ UNCHANGED ghostVars
    /\ UNCHANGED <<envVars, extRead, handle, runVars, poolVars, lockHolder, lockCount,
                   tableExists, effects, created, tableLock, histVars>>

\* another client reads the table (SELECT ... FROM schema_migrations)
ExternalSelect ==
    /\ extLeft > 0
    /\ tableExists
    /\ ~Blocked(ExtConn)
    /\ extRead' = TableVersions
    /\ extLeft' = extLeft - 1
    /\ UNCHANGED ghostVars
    /\ UNCHANGED <<envVars, handle, runVars, poolVars, dbVars, histVars>>

NextExt ==
    \/ Next
    \/ \E v \in AllVersions : ExternalInsert(v)
    \/ ExternalSelect

Spec == Init /\ [][Next]_vars

SpecSrc == InitSrc /\ [][Next]_vars

SpecNew == InitNew /\ [][Next]_vars

SpecExt == InitExt /\ [][NextExt]_vars

\* the database answers every statement it can answer, and a goroutine in Run
\* keeps running: a step of a Run that stays possible is taken
SpecLive == InitLive /\ [][Next]_vars /\ \A r \in Runs : WF_vars(RunStep(r))

(***************************************************************************)
(* Vocabulary of the properties.                                           *)
(***************************************************************************)
\* the versions of the source, and the state of a table that holds each once
SeqRange(q) == {q[i] : i \in 1..Len(q)}
SourceVersions == {VersionOf(p) : p \in SeqRange(getMigrationFiles(source))}
OnceEach == [v \in AllVersions |-> IF v \in SourceVersions THEN 1 ELSE 0]

AllBodiesOk == \A f \in source : f.body = "ok"
AllIdle == \A r \in Runs : pc[r] = "idle"

\* run r is between a successful tryLock and the return of Run
PastLock(r) == pc[r] \notin {"idle", "tryLock"}

\* every caller has invoked Run exactly once and all have returned
BatchDone ==
    /\ AllIdle
    /\ callsLeft = MaxCalls - NumRuns
    /\ \A r \in Runs : result[r] # "none"

Returned(kind) == {r \in Runs : pc[r] = "idle" /\ result[r] = kind}

(***************************************************************************)
(* C1. N Runs launched together against an empty schema and the same      *)
(* source (every tryLock runs before any Run has released the lock, no     *)
(* statement fails, every body is valid): exactly one Run returns success, *)
(* the other N-1 return "another migration is in progress", and the table  *)
(* holds each source version once. Stated as claimed; the Runs of one      *)
(* handle refute it.                                                       *)
(***************************************************************************)
C1_OneWinner ==
    (BatchDone /\ ~lateTry /\ faults = 0 /\ AllBodiesOk)
        => /\ Cardinality(Returned("ok")) = 1
           /\ Cardinality(Returned("contention")) = NumRuns - 1
           /\ rows = OnceEach

(***************************************************************************)
(* C2. At most one Run is past a successful tryLock and before its return  *)
(* at any instant. Stated as claimed; two Runs of one handle refute it.    *)
(***************************************************************************)
C2_MutualExclusion == Cardinality({r \in Runs : PastLock(r)}) <= 1

(***************************************************************************)
(* C5. When no Run is in progress and no unlock call has failed, no        *)
(* session holds the advisory lock. Stated as claimed; an unlock that runs *)
(* on another connection than the tryLock refutes it.                      *)
(***************************************************************************)
C5_LockFreeWhenIdle == (AllIdle /\ ~unlockFaulted) => lockHolder = NoConn

(***************************************************************************)
(* C3. A Run in which applying a version failed makes nothing durable: no  *)
(* row and no body effect of the versions it applied before the failure is *)
(* committed, its transaction is never committed, and it returns the       *)
(* migration failure. With a valid file followed by an invalid one the     *)
(* table never holds a row.                                                *)
(***************************************************************************)
ValidThenInvalid ==
    LET fs == getMigrationFiles(source)
    IN  /\ Len(fs) = 2
        /\ ReadFile(source, fs[1]) = "ok"
        /\ ReadFile(source, fs[2]) = "bad"

C3_FailureLeavesNothing ==
    /\ \A r \in Runs :
          err[r] = "apply"
            => /\ durable[r] = {}
               /\ txEnd[r] \in {"open", "abort"}
               /\ pc[r] = "idle" => result[r] = "apply"
    /\ (rows # NoRows \/ effects # NoRows) => ~ValidThenInvalid

\* a Run has returned the migration failure after applying an earlier version
C3_Witness ==
    \E r \in Runs :
        /\ pc[r] = "idle" /\ result[r] = "apply"
        /\ \E i \in 1..Len(log[r]) : log[r][i].op = "row"

(***************************************************************************)
(* C4. Runs made one after the other, with no failing statement, over a    *)
(* source of valid bodies and distinct versions: every Run returns         *)
(* success, the table then holds each source version once and each body    *)
(* has been committed once, and a Run that read every source version as    *)
(* applied executes no body, inserts no row and commits no change.         *)
(***************************************************************************)
DistinctVersions ==
    \A f, g \in {h \in source : HasSuffix(Base(h.path), SqlSuffix)} :
        VersionOf(f.path) = VersionOf(g.path) => f = g

Sequential == ~overlap /\ faults = 0 /\ AllBodiesOk /\ DistinctVersions

C4_SecondRunNoOp ==
    Sequential =>
        \A r \in Runs :
            /\ (pc[r] = "idle" /\ result[r] # "none")
                  => result[r] = "ok" /\ rows = OnceEach /\ effects = OnceEach
            /\ (pc[r] \notin {"idle", "tryLock", "begin", "create", "createWait",
                               "lockTable", "read"} /\ SourceVersions \subseteq applied[r])
                  => log[r] = <<>> /\ durable[r] = {}

\* the second of two Runs in sequence has returned, having found all applied
C4_Witness ==
    /\ Sequential /\ AllIdle /\ callsLeft = 0
    /\ \E r \in Runs :
          /\ result[r] = "ok"
          /\ SourceVersions # {} /\ SourceVersions \subseteq applied[r]

(***************************************************************************)
(* C6, as claimed. Within one Run the versions are applied in ascending    *)
(* order of their version string. Two files of which one's name extends    *)
(* the other's by a character below '.', or files in subdirectories,       *)
(* refute it.                                                              *)
(***************************************************************************)
C6_VersionOrder ==
    \A r \in Runs : \A i, j \in 1..Len(log[r]) :
        i < j => ~StrLess(log[r][j].version, log[r][i].version)

(***************************************************************************)
(* C6, amended. Within one Run the pending files are applied in ascending  *)
(* bytewise order of their path in the source (directories and the .sql    *)
(* suffix included): a file's body is executed and its row inserted before *)
(* the body of any file with a greater path. When the source is flat and   *)
(* no version is a prefix of another, that is the ascending order of the   *)
(* version strings.                                                        *)
(***************************************************************************)
IsPrefix(s, t) == Len(s) <= Len(t) /\ SubSeq(t, 1, Len(s)) = s

FlatPrefixFree ==
    \A f, g \in {h \in source : HasSuffix(Base(h.path), SqlSuffix)} :
        /\ Base(f.path) = f.path
        /\ f # g => ~IsPrefix(VersionOf(f.path), VersionOf(g.path))

C6_PathOrder ==
    /\ \A r \in Runs : \A i, j \in 1..Len(log[r]) :
          /\ i < j => ~StrLess(log[r][j].path, log[r][i].path)
          /\ log[r][i].op = "row"
                => i > 1 /\ log[r][i - 1].op = "body" /\ log[r][i - 1].path = log[r][i].path
          /\ (log[r][i].op = "body" /\ i < Len(log[r]))
                => log[r][i + 1].op = "row" /\ log[r][i + 1].path = log[r][i].path
    /\ ~C6_VersionOrder => ~FlatPrefixFree

\* a Run has applied two files
C6_Witness ==
    \E r \in Runs :
        /\ Len(log[r]) = 4
        /\ log[r][1].path # log[r][3].path
        /\ log[r][4].op = "row"

(***************************************************************************)
(* C7. A Run whose tryLock reports that the lock is not free returns at    *)
(* once with "another migration is in progress": that step changes nothing *)
(* in the database (advisory lock, table, rows, transactions), and the Run *)
(* has begun no transaction and executed no statement of a migration.      *)
(***************************************************************************)
C7_LoserTouchesNothing ==
    /\ [][\A r \in Runs :
            (pc[r] = "tryLock" /\ result'[r] = "contention")
                => pc'[r] = "idle" /\ UNCHANGED <<dbVars, busy, txConn>>]_vars
    /\ [](\A r \in Runs :
            result[r] = "contention"
                => pc[r] = "idle" /\ txEnd[r] = "none" /\ log[r] = <<>> /\ durable[r] = {})

\* a Run has lost against a holder that is still at work
C7_Witness ==
    \E r \in Runs :
        /\ result[r] = "contention"
        /\ \E q \in Others(r) : PastLock(q) /\ lockHolder # NoConn

(***************************************************************************)
(* C8. In every committed state the table holds each version at most once, *)
(* and it holds a version exactly when the body of that version has been   *)
(* executed in a transaction that committed.                               *)
(***************************************************************************)
C8_RecordIffBody ==
    \A v \in AllVersions :
        /\ rows[v] <= 1
        /\ (rows[v] > 0) <=> (effects[v] > 0)

\* a version is recorded while a Run that failed has returned
C8_Witness ==
    /\ \E v \in AllVersions : rows[v] = 1 /\ effects[v] = 1
    /\ \E r \in Runs : pc[r] = "idle" /\ result[r] \in {"apply", "commit"}

(***************************************************************************)
(* C9. Whatever Runs are made, in sequence or interleaved, by callers of   *)
(* one handle or of several: the body of a version is committed at most    *)
(* once.                                                                   *)
(***************************************************************************)
C9_BodyCommittedOnce == \A v \in AllVersions : effects[v] <= 1

\* interleaved Runs have all returned and a body is committed
C9_Witness ==
    /\ overlap /\ AllIdle /\ callsLeft = 0
    /\ \E v \in AllVersions : effects[v] = 1

(***************************************************************************)
(* C10. A Run returns success only when the commit of its transaction      *)
(* succeeded; when the commit fails the Run returns the commit failure and *)
(* nothing the Run applied has become durable.                             *)
(***************************************************************************)
C10_SuccessOnlyAfterCommit ==
    \A r \in Runs :
        /\ result[r] = "ok" => txEnd[r] = "commit"
        /\ (pc[r] \in {"unlock", "idle"} /\ txEnd[r] = "abort") => err[r] # "none"
        /\ err[r] = "commit"
              => /\ txEnd[r] = "abort"
                 /\ durable[r] = {}
                 /\ pc[r] = "idle" => result[r] = "commit"

\* a Run has returned the commit failure after applying a version
C10_Witness ==
    \E r \in Runs :
        /\ pc[r] = "idle" /\ result[r] = "commit"
        /\ log[r] # <<>>

(***************************************************************************)
(* C11. After a Run that failed while applying has returned (its unlock    *)
(* call did not fail), a following Run made while no other Run is in       *)
(* progress is not refused for lock contention; the Run that follows the   *)
(* failed one in sequence reads the applied set the failed Run read, and   *)
(* when the failure does not recur (the bodies are valid and no statement  *)
(* fails again) it returns success with every source version recorded.     *)
(* Stated as claimed; a failed Run whose unlock ran on another connection  *)
(* than its tryLock refutes it.                                            *)
(***************************************************************************)
FailedApply(q) == pc[q] = "idle" /\ result[q] = "apply"

\* two Runs have been invoked, one after the other
FirstTwoInSequence == ~overlap /\ callsLeft = MaxCalls - 2

C11_RerunAfterFailure ==
    /\ [][\A r \in Runs :
            (/\ pc[r] = "tryLock"
             /\ ~unlockFaulted
             /\ \A q \in Others(r) : pc[q] = "idle"
             /\ \E q \in Others(r) : FailedApply(q))
                => result'[r] # "contention"]_vars
    /\ [](\A q, r \in Runs :
            (FirstTwoInSequence /\ FailedApply(q) /\ r # q)
                => /\ pc[r] \in {"files", "loop", "rollback"} => applied[r] = applied[q]
                   /\ (pc[r] = "idle" /\ result[r] # "none" /\ AllBodiesOk
                         /\ DistinctVersions /\ faults = 1)
                        => result[r] = "ok" /\ rows = OnceEach)

(***************************************************************************)
(* C12. A Run invoked with an already-cancelled context returns a failure  *)
(* at once: the invocation changes nothing in the database (no row, no     *)
(* table, no advisory lock, no connection in use), the Run opens no        *)
(* transaction and executes no statement, and while only such Runs have    *)
(* been made the table has no row and no session holds the advisory lock.  *)
(***************************************************************************)
Cancelled(r) == args[r].ctx = "cancelled"

C13_NewValidates ==
    \A r \in Runs :
        Started(r) => args[r].db # "nil" /\ args[r].migrations # "nil"

(***************************************************************************)
(* C14. A Run configured with table name T and lock identifier L sends its *)
(* lock statements for L and its table statements for T, and a Run is      *)
(* refused for contention only when another caller is configured with the  *)
(* same lock identifier. Stated as claimed; the statements of Run name     *)
(* lock 1 and schema_migrations whatever the configuration.                *)
(***************************************************************************)
C14_ConfiguredNames ==
    \A r \in Runs :
        /\ PastLock(r) => LockKey(args[r].cfg) = args[r].cfg.lockID
        /\ txConn[r] # NoConn => TableName(args[r].cfg) = args[r].cfg.tableName
        /\ (pc[r] = "idle" /\ result[r] = "contention")
              => \E q \in Others(r) : args[q].cfg.lockID = args[r].cfg.lockID

(***************************************************************************)
(* C15. Within one Run the lock acquisition, the transaction and the lock  *)
(* release execute on one session that no other Run uses meanwhile: the    *)
(* session of a Run's transaction is the one holding the advisory lock, no *)
(* session holds the lock for two Runs, and an unlock call that does not   *)
(* fail releases a hold of the lock. Stated as claimed; tryLock, Begin and *)
(* unlock each take whatever connection the pool gives them.               *)
(***************************************************************************)
UnlockStep(r) == pc[r] = "unlock" /\ pc'[r] = "idle"

C15_OneSession ==
    /\ [](\A r \in Runs : txConn[r] # NoConn => lockHolder = txConn[r])
    /\ [](lockCount <= 1)
    /\ [][\A r \in Runs :
            (UnlockStep(r) /\ faults' = faults) => lockCount' = lockCount - 1]_vars

(***************************************************************************)
(* C16. unlock returns nil exactly when the call released a hold of the    *)
(* lock: it returns an error when the session it ran on did not hold the   *)
(* lock, and when the call failed. Stated as claimed; unlock returns nil   *)
(* whatever flag pg_advisory_unlock returned.                              *)
(***************************************************************************)
C16_ReleaseReports ==
    [][\A r \in Runs :
        UnlockStep(r) => (unlockErr'[r] = "nil" <=> lockCount' = lockCount - 1)]_vars

(***************************************************************************)
(* C17. Once applying a version has failed, the Run attempts nothing more: *)
(* the body of a file is executed only after every pending file sorted     *)
(* before it has had its body executed and its row inserted, and after the *)
(* failure the Run leaves the loop with no statement of a later file       *)
(* executed.                                                               *)
(***************************************************************************)
RowBefore(r, file, i) ==
    \E j \in 1..(i - 1) : log[r][j].op = "row" /\ log[r][j].path = file

C17_StopsAtFirstFailure ==
    \A r \in Runs :
        /\ \A i \in 1..Len(log[r]) :
              log[r][i].op = "body"
                => \A k \in 1..Len(files[r]) :
                      (StrLess(files[r][k], log[r][i].path) /\ IsPending(r, files[r][k]))
                          => RowBefore(r, files[r][k], i)
        /\ err[r] = "apply"
              => /\ pc[r] \in {"rollback", "unlock", "idle"}
                 /\ idx[r] <= Len(files[r])
                 /\ \A i \in 1..Len(log[r]) : ~StrLess(files[r][idx[r]], log[r][i].path)

\* a Run has returned the failure of a version with a pending version after it
C17_Witness ==
    \E r \in Runs :
        /\ pc[r] = "idle" /\ result[r] = "apply"
        /\ idx[r] < Len(files[r])
        /\ IsPending(r, files[r][Len(files[r])])

(***************************************************************************)
(* C18. When two files of the source reduce to one version and that        *)
(* version is pending, the Run does not succeed and commits nothing; with  *)
(* valid bodies and no other failure it applies the first file, executes   *)
(* the body of the second, fails on the insert of the second's row and     *)
(* returns the migration failure.                                          *)
(***************************************************************************)
\* files k and l of run r collide on a version that r found pending
Collide(r, k, l) ==
    /\ k < l
    /\ VersionOf(files[r][k]) = VersionOf(files[r][l])
    /\ IsPending(r, files[r][k])

C18_CollisionFails ==
    \A r \in Runs : \A k, l \in 1..Len(files[r]) :
        Collide(r, k, l)
            => /\ result[r] \notin {"ok", "contention", "lock", "begin"}
               /\ txEnd[r] # "commit" /\ durable[r] = {}
               /\ (pc[r] = "idle" /\ result[r] # "none" /\ faults = 0 /\ AllBodiesOk)
                     => /\ result[r] = "apply"
                        /\ RowBefore(r, files[r][k], Len(log[r]))
                        /\ log[r][Len(log[r])].op = "body"
                        /\ log[r][Len(log[r])].path = files[r][l]

\* a Run has returned after the insert of a second file's version failed
C18_Witness ==
    \E r \in Runs : \E k, l \in 1..Len(files[r]) :
        /\ Collide(r, k, l)
        /\ pc[r] = "idle" /\ result[r] = "apply" /\ faults = 0
        /\ Len(log[r]) >= 3
        /\ log[r][Len(log[r])].path = files[r][l]

(***************************************************************************)
(* C19. Every Run that reads the table, whatever Runs the same Migrator    *)
(* made before and whoever inserted the rows, reads the versions of the    *)
(* rows the table holds at that moment; it executes the body of no version *)
(* it read, and when its loop is through it has applied exactly the source *)
(* versions it did not read; when it commits, the table holds the versions *)
(* read together with the source versions.                                 *)
(***************************************************************************)
LogVersions(r) == {log[r][i].version : i \in 1..Len(log[r])}

LoopDone(r) ==
    \/ pc[r] = "loop" /\ idx[r] > Len(files[r])
    \/ txEnd[r] = "commit"

C19_DiffFromTable ==
    /\ [][\A r \in Runs :
            (pc[r] = "read" /\ pc'[r] = "files") => applied'[r] = TableVersions]_vars
    /\ [](\A r \in Runs :
            /\ LogVersions(r) \subseteq SourceVersions \ applied[r]
            /\ LoopDone(r) => LogVersions(r) = SourceVersions \ applied[r])
    /\ [][\A r \in Runs :
            (txEnd[r] = "open" /\ txEnd'[r] = "commit")
                => {v \in AllVersions : rows'[v] > 0} = applied[r] \cup SourceVersions]_vars

\* a Run has succeeded that found a source version inserted by another client
\* and applied another one itself
C19_Witness ==
    \E r \in Runs : \E v, w \in SourceVersions :
        /\ pc[r] = "idle" /\ result[r] = "ok"
        /\ rows[v] = 1 /\ effects[v] = 0 /\ v \in applied[r]
        /\ Count(log[r], "row", w) = 1

(***************************************************************************)
(* C20. While a Run holds the ACCESS EXCLUSIVE lock on the table, until    *)
(* its transaction ends, no statement of another client reads or writes    *)
(* the table and no other Run, even one that got past the advisory lock,   *)
(* reads or writes it: the committed rows do not change, and the versions  *)
(* the Run read are the table's content up to its commit or rollback.      *)
(***************************************************************************)
HoldsTable(r) == txConn[r] # NoConn /\ tableLock = txConn[r]

\* run r is between its LOCK TABLE and the end of its transaction
InTable(r) ==
    \/ pc[r] \in {"read", "files", "loop"}
    \/ pc[r] = "rollback" /\ err[r] \in {"read", "files", "apply"}

C20_TableLockAtomic ==
    /\ [](\A r \in Runs :
            /\ InTable(r) => HoldsTable(r)
            /\ (InTable(r) /\ pc[r] # "read" /\ err[r] # "read")
                  => applied[r] = TableVersions)
    /\ [](Cardinality({r \in Runs : InTable(r)}) <= 1)
    /\ [][tableLock # NoConn => extLeft' = extLeft]_vars
    /\ [][(tableLock # NoConn /\ tableLock' = tableLock) => rows' = rows]_vars

\* a Run holds the table lock after reading, while another Run that is past
\* the advisory lock and a statement of another client wait for it
C20_Witness ==
    \E r \in Runs : \E q \in Others(r) :
        /\ HoldsTable(r) /\ pc[r] = "loop" /\ log[r] # <<>>
        /\ pc[q] = "lockTable"
        /\ tableExists /\ extLeft > 0

(***************************************************************************)
(* C21. What m.unlock() returns never changes what Run returns: a Run      *)
(* whose transaction committed returns success also when the release       *)
(* failed, and a Run that failed returns the error of its own phase        *)
(* (begin, table creation, table lock, read, file listing, migration,      *)
(* commit), never the release error.                                       *)
(***************************************************************************)
PhaseErrors == {"begin", "create", "lockTable", "read", "files", "apply", "commit"}

\* the deferred unlock of r's last Run has run and the Run has returned
Released(r) == pc[r] = "idle" /\ unlockErr[r] # "none"

C21_ReleaseFailureNotReturned ==
    \A r \in Runs :
        Released(r)
            => /\ txEnd[r] = "commit" => result[r] = "ok"
               /\ txEnd[r] # "commit" => result[r] = err[r] /\ result[r] \in PhaseErrors

\* a Run that applied a version and committed has returned success although
\* its release failed
C21_Witness ==
    \E r \in Runs :
        /\ Released(r) /\ unlockErr[r] = "error"
        /\ txEnd[r] = "commit" /\ log[r] # <<>>
        /\ result[r] = "ok"

(***************************************************************************)
(* C22. Every Run that was invoked returns, with one of the outcomes of    *)
(* Run, provided the database answers its statements: a Run that finds the *)
(* advisory lock taken has returned in that step and never waits for it,   *)
(* and whenever Runs are in progress one of them can take its next step,   *)
(* so the Runs waiting for the table (behind LOCK TABLE or a concurrent     *)
(* CREATE TABLE) never wait for each other.                                *)
(***************************************************************************)
Outcomes == {"ok", "contention", "lock"} \cup PhaseErrors

InProgress(r) == pc[r] # "idle"

C22_EveryRunReturns ==
    /\ \A r \in Runs : InProgress(r) ~> (pc[r] = "idle" /\ result[r] \in Outcomes)
    /\ [](\A r \in Runs :
            /\ result[r] = "contention" => pc[r] = "idle"
            /\ pc[r] = "tryLock" => ENABLED TryLock(r))
    /\ []((\E r \in Runs : InProgress(r))
            => \E r \in Runs : InProgress(r) /\ ENABLED RunStep(r))

\* a Run waits behind the table lock of another Run that is past the same
\* advisory lock
C22_Witness ==
    \E r \in Runs : \E q \in Others(r) :
        /\ pc[r] = "lockTable" /\ Blocked(txConn[r])
        /\ HoldsTable(q) /\ lockCount = 2

(***************************************************************************)
(* C23. When Run has returned, the transaction it began is ended: it was   *)
(* committed exactly when Run returned success and rolled back on every    *)
(* failure after Begin, and a Run that failed before Begin had none. No    *)
(* connection stays bound to a transaction, no table lock and no           *)
(* uncommitted table stays behind, unless a Run in progress owns it.       *)
(***************************************************************************)
HasReturned(r) == pc[r] = "idle" /\ result[r] # "none"

\* the sessions of the transactions of the Runs in progress
OpenTx == {txConn[r] : r \in {q \in Runs : InProgress(q) /\ txConn[q] # NoConn}}

C23_NoOpenTransaction ==
    /\ \A r \in Runs :
          HasReturned(r)
            => /\ txConn[r] = NoConn /\ txEnd[r] # "open"
               /\ txEnd[r] = "commit" <=> result[r] = "ok"
               /\ txEnd[r] = "abort"
                     <=> result[r] \in {"create", "lockTable", "read", "files", "apply", "commit"}
               /\ txEnd[r] = "none" <=> result[r] \in {"contention", "lock", "begin"}
    /\ busy = OpenTx
    /\ tableLock # NoConn => tableLock \in OpenTx
    /\ created \subseteq OpenTx

\* a Run that held the table lock and applied a version has returned a failure,
\* and no table lock is left
C23_Witness ==
    \E r \in Runs :
        /\ HasReturned(r) /\ result[r] = "apply" /\ log[r] # <<>>
        /\ txEnd[r] = "abort" /\ tableLock = NoConn /\ busy = {}

(***************************************************************************)
(* C24. The committed records only grow: no step of any Run, successful or *)
(* failed, removes a committed row, undoes a committed body or drops the   *)
(* table, so a version once recorded is recorded in every later state.     *)
(***************************************************************************)
C24_RecordsOnlyGrow ==
    [][/\ \A v \in AllVersions : rows'[v] >= rows[v] /\ effects'[v] >= effects[v]
       /\ tableExists => tableExists']_vars

\* a Run that read committed records has failed and returned, and the records
\* it read are still there
C24_Witness ==
    \E r \in Runs :
        /\ HasReturned(r) /\ txEnd[r] = "abort"
        /\ applied[r] # {}
        /\ \A v \in applied[r] : rows[v] = 1

(***************************************************************************)
(* C25, as claimed. The failure of a Run that failed while applying names  *)
(* a version, and no pending version below it in the order of the version  *)
(* strings has a body that fails. Two invalid files of which one's name    *)
(* extends the other's by a character below '.', or invalid files in       *)
(* subdirectories, refute it.                                              *)
(***************************************************************************)
\* the positions of the pending files of r that have no row yet
Unapplied(r) ==
    {k \in 1..Len(files[r]) :
        /\ IsPending(r, files[r][k])
        /\ \A i \in 1..Len(log[r]) : ~(log[r][i].op = "row" /\ log[r][i].path = files[r][k])}

SmallestFailingVersion(r) ==
    /\ errVersion[r] # NoVersion
    /\ \A k \in 1..Len(files[r]) :
          (IsPending(r, files[r][k]) /\ ReadFile(source, files[r][k]) = "bad")
              => ~StrLess(VersionOf(files[r][k]), errVersion[r])

C25_SmallestVersion == \A r \in Runs : err[r] = "apply" => SmallestFailingVersion(r)

(***************************************************************************)
(* C25, amended. The failure of a Run that failed while applying names the *)
(* version of the pending file that is first, in the bytewise order of the *)
(* paths, among those the Run has not applied; applying that file failed   *)
(* (invalid body, version already inserted, or a failing statement). The   *)
(* error differs from the contention, table-creation and commit failures,  *)
(* and no other failure names a version. When the source is flat and no    *)
(* version is a prefix of another, the version named is the smallest       *)
(* failing one in the order of the version strings.                        *)
(***************************************************************************)
C25_FirstFailingPath ==
    \A r \in Runs :
        /\ err[r] # "apply" => errVersion[r] = NoVersion
        /\ err[r] = "apply"
              => /\ Unapplied(r) # {}
                 /\ \E k \in Unapplied(r) :
                       /\ \A j \in Unapplied(r) : ~StrLess(files[r][j], files[r][k])
                       /\ errVersion[r] = VersionOf(files[r][k])
                       /\ \/ ReadFile(source, files[r][k]) = "bad"
                          \/ faults > 0
                          \/ \E i \in 1..Len(log[r]) :
                                log[r][i].op = "row" /\ log[r][i].version = errVersion[r]
                 /\ FlatPrefixFree => SmallestFailingVersion(r)
        /\ (HasReturned(r) /\ result[r] = "apply")
              => /\ ErrorText(result[r], errVersion[r])[2] = errVersion[r]
                 /\ \A k \in {"contention", "create", "commit"} :
                       ErrorText(result[r], errVersion[r])[1] # ErrorText(k, NoVersion)[1]

\* a Run has applied a version and returned the failure of a later one, named
\* in its error
C25_Witness ==
    \E r \in Runs :
        /\ HasReturned(r) /\ result[r] = "apply"
        /\ errVersion[r] # NoVersion
        /\ \E i \in 1..Len(log[r]) : log[r][i].op = "row" /\ log[r][i].version # errVersion[r]

(***************************************************************************)
(* C26. The deferred unlock of a Run runs only after its transaction has   *)
(* been committed or rolled back, never while the transaction is open, and *)
(* so no Run is granted the advisory lock while another Run has            *)
(* uncommitted changes (statements of migrations, or the table it          *)
(* created). Stated as claimed; the unlock does come after the end of the  *)
(* transaction, but a second Run of the same handle is granted the lock on *)
(* the session that holds it while the first Run's transaction is open.    *)
(***************************************************************************)
Uncommitted(q) == txEnd[q] = "open" /\ (log[q] # <<>> \/ txConn[q] \in created)

C26_ReleaseAfterTxEnd ==
    /\ [](\A r \in Runs : pc[r] = "unlock" => txConn[r] = NoConn /\ txEnd[r] # "open")
    /\ [][\A r \in Runs :
            (pc[r] = "tryLock" /\ pc'[r] = "begin")
                => \A q \in Others(r) : ~Uncommitted(q)]_vars

====
